---- MODULE Spec2Model ----
(***************************************************************************)
(* transact_derive: the Builder derive macro (src/transact_derive/src/     *)
(* builder.rs).  A generation pass turns one parsed declaration            *)
(* (syn::DeriveInput) into a generated unit: the accessors, the companion  *)
(* (builder) type with new() and its with_<field> setters, and, under      *)
(* #[gen_build_impl], the impl of Build.  The generated unit is kept as    *)
(* data, and the run-time actions (new, with_<field>, build) execute it.   *)
(***************************************************************************)
EXTENDS Naturals, Sequences, FiniteSets, TLC

VARIABLES
    decl,       \* the DeriveInput handed to derive_builder
    pc,         \* "parsed" before the generation pass, "expanded" after it
    local_struct_impl,    \* generate_builder_macro's local struct_impl
    local_builder_struct, \* generate_builder_macro's local builder_struct
    output,     \* what derive_builder returned to the compiler
    builder,    \* the companion instance the caller holds
    result,     \* what build() returned
    calls,      \* per field, the arguments of its setter's last calls (history)
    view        \* what the last accessor call on the built instance returned

vars == <<decl, pc, local_struct_impl, local_builder_struct, output, builder, result, calls,
          view>>

----------------------------------------------------------------------------
(* Bounds of the model.                                                    *)

MaxFields == 2      \* fields per declaration
MaxAttrs == 2       \* attributes on the declaration itself

----------------------------------------------------------------------------
(* Results: Ok(v), Err(syn::Error with a message), or a panic of the macro *)

Ok(v) == [kind |-> "Ok", val |-> v, msg |-> ""]
Err(m) == [kind |-> "Err", val |-> <<>>, msg |-> m]
Panic(m) == [kind |-> "Panic", val |-> <<>>, msg |-> m]
NotRun == [kind |-> "None", val |-> <<>>, msg |-> ""]

----------------------------------------------------------------------------
(* syn's data, as far as builder.rs reads it.                              *)

NoLit == [kind |-> "None", value |-> ""]
LitStr(s) == [kind |-> "Str", value |-> s]
LitInt(s) == [kind |-> "Int", value |-> s]

\* #[path tts]; tts is nothing ("Empty"), a well-formed (...) list ("Paren"),
\* `= literal` ("EqLit") or tokens that are no meta item ("Junk").
Attribute(path, tts, lit) == [path |-> path, tts |-> tts, lit |-> lit]

\* Attribute::parse_meta of syn 0.15: the path must be one identifier, and the
\* tokens after it nothing, a literal assignment or a list of nested metas.
parse_meta(attr) ==
    IF Len(attr.path) # 1 \/ attr.tts = "Junk"
    THEN [ok |-> FALSE, kind |-> "", name |-> "", lit |-> NoLit]
    ELSE [ok |-> TRUE,
          kind |-> CASE attr.tts = "Empty" -> "Word"
                     [] attr.tts = "Paren" -> "List"
                     [] OTHER -> "NameValue",
          name |-> attr.path[1],
          lit |-> IF attr.tts = "EqLit" THEN attr.lit ELSE NoLit]

\* proc_macro2::Ident::new panics on a string that is no identifier.
NotIdentifiers == {"", "org builder"}
IsIdentifier(s) == s \notin NotIdentifiers

NoArguments == [kind |-> "None", args |-> <<>>]
AngleBracketed(args) == [kind |-> "AngleBracketed", args |-> args]
TypeArg(name) == [kind |-> "Type", name |-> name]
LifetimeArg(name) == [kind |-> "Lifetime", name |-> name]
Segment(ident, arguments) == [ident |-> ident, arguments |-> arguments]
TypePath(segments) == [kind |-> "Path", segments |-> segments]
TypeReference(name) == [kind |-> "Reference", segments |-> <<Segment(name, NoArguments)>>]

SomeIdent(name) == [some |-> TRUE, name |-> name]
NoIdent == [some |-> FALSE, name |-> ""]
Field(ident, ty, attrs) == [ident |-> ident, ty |-> ty, attrs |-> attrs]

----------------------------------------------------------------------------
(* builder.rs, helpers                                                     *)

has_helper_attribue(field, ident) ==
    \E i \in 1..Len(field.attrs) :
        LET meta == parse_meta(field.attrs[i])
        IN  meta.ok /\ meta.name = ident

\* has_getter_attr reading the field's first attribute alone.
has_getter_attr_first_only(field) ==
    /\ Len(field.attrs) > 0
    /\ parse_meta(field.attrs[1]).ok
    /\ parse_meta(field.attrs[1]).name = "getter"

has_getter_attr(field) == has_helper_attribue(field, "getter")

\* has_optional_attr looking for the wrong identifier.
has_optional_attr_getter(field) == has_helper_attribue(field, "getter")

has_optional_attr(field) == has_helper_attribue(field, "optional")

is_type(ident, ty) ==
    IF ty.kind = "Path"
    THEN \E i \in 1..Len(ty.segments) : ty.segments[i].ident = ident
    ELSE FALSE

\* is_string finding String among the generic arguments too.
is_string_deep(ty) ==
    \/ is_type("String", ty)
    \/ /\ ty.kind = "Path"
       /\ \E i \in 1..Len(ty.segments) :
              \E k \in 1..Len(ty.segments[i].arguments.args) :
                  ty.segments[i].arguments.args[k].name = "String"

is_string(ty) == is_type("String", ty)

is_vec(ty) == is_type("Vec", ty)

\* extract_type_from_generic refusing more than one generic argument.
extract_type_from_generic_single(ty) ==
    IF ty.kind # "Path" THEN Err("Type does not have generic")
    ELSE IF Len(ty.segments) = 0 THEN Err("Type does not have generic")
    ELSE LET args == ty.segments[1].arguments
         IN  IF args.kind # "AngleBracketed" THEN Err("Type does not have generic")
             ELSE IF Len(args.args) # 1 THEN Err("Type does not have generic")
             ELSE IF args.args[1].kind = "Type" THEN Ok(args.args[1].name)
             ELSE Err("Type does not have generic")

extract_type_from_generic(ty) ==
    IF ty.kind # "Path" THEN Err("Type does not have generic")
    ELSE IF Len(ty.segments) = 0 THEN Err("Type does not have generic")
    ELSE LET args == ty.segments[1].arguments
         IN  IF args.kind # "AngleBracketed" THEN Err("Type does not have generic")
             ELSE IF Len(args.args) = 0 THEN Err("Type does not have generic")
             ELSE IF args.args[1].kind = "Type" THEN Ok(args.args[1].name)
             ELSE Err("Type does not have generic")

get_struct_fields(derive_input) ==
    IF derive_input.data.kind = "Struct"
    THEN Ok(derive_input.data.fields)
    ELSE Err("builder is only compatible with stucts")

\* extract_builder_name refusing a directive it cannot read.
extract_builder_name_strict(attr) ==
    IF Len(attr.path) = 0 THEN [kind |-> "None", name |-> ""]
    ELSE IF attr.path[1] # "builder_name" THEN [kind |-> "None", name |-> ""]
    ELSE LET meta == parse_meta(attr)
         IN  IF meta.ok /\ meta.kind = "NameValue" /\ meta.lit.kind = "Str"
                /\ IsIdentifier(meta.lit.value)
             THEN [kind |-> "Some", name |-> meta.lit.value]
             ELSE [kind |-> "Panic", name |-> ""]

extract_builder_name(attr) ==
    IF Len(attr.path) = 0 THEN [kind |-> "None", name |-> ""]
    ELSE IF attr.path[1] # "builder_name" THEN [kind |-> "None", name |-> ""]
    ELSE LET meta == parse_meta(attr)
         IN  IF ~(meta.ok /\ meta.kind = "NameValue") THEN [kind |-> "None", name |-> ""]
             ELSE IF meta.lit.kind = "Str"
                  THEN IF IsIdentifier(meta.lit.value)
                       THEN [kind |-> "Some", name |-> meta.lit.value]
                       ELSE [kind |-> "Panic", name |-> ""]
                  ELSE [kind |-> "None", name |-> ""]

RECURSIVE builder_name_loop(_, _)
builder_name_loop(attrs, struct_name) ==
    IF attrs = <<>>
    THEN Ok(struct_name \o "Builder")
    ELSE LET name == extract_builder_name(Head(attrs))
         IN  CASE name.kind = "Some" -> Ok(name.name)
               [] name.kind = "Panic" -> Panic("not a valid Ident")
               [] OTHER -> builder_name_loop(Tail(attrs), struct_name)

\* generate_builder_name taking the last directive that names the builder.
generate_builder_name_last(derive_input) ==
    builder_name_loop([i \in 1..Len(derive_input.attrs) |->
                          derive_input.attrs[Len(derive_input.attrs) + 1 - i]],
                      derive_input.ident)

generate_builder_name(derive_input) ==
    builder_name_loop(derive_input.attrs, derive_input.ident)

RECURSIVE gen_build_fn_attr_loop(_)
gen_build_fn_attr_loop(attrs) ==
    IF attrs = <<>> THEN FALSE
    ELSE IF Len(Head(attrs).path) = 0 THEN FALSE
    ELSE IF Head(attrs).path[1] = "gen_build_impl" THEN TRUE
    ELSE gen_build_fn_attr_loop(Tail(attrs))

\* has_gen_build_fn_attr giving up at the first attribute that is another one.
has_gen_build_fn_attr_first_only(attrs) ==
    Len(attrs) > 0 /\ Len(attrs[1].path) > 0 /\ attrs[1].path[1] = "gen_build_impl"

has_gen_build_fn_attr(attrs) == gen_build_fn_attr_loop(attrs)

----------------------------------------------------------------------------
(* builder.rs, the generators.  Generated code is kept as data: an accessor *)
(* is its name and return shape, a setter its name and the field it sets,  *)
(* a let statement of build() the field it resolves and how.               *)

Getter(name, kind, elem, ty) == [name |-> name, kind |-> kind, elem |-> elem, ty |-> ty]

RECURSIVE getters_loop(_, _)
getters_loop(fields, tokens) ==
    IF fields = <<>> THEN Ok(tokens)
    ELSE LET field == Head(fields)
             ty == field.ty
         IN  IF ~field.ident.some THEN Panic("unwrap on a None value")
             ELSE IF is_string(ty)
                  THEN getters_loop(Tail(fields),
                           Append(tokens, Getter(field.ident.name, "&str", "", ty)))
             ELSE IF is_vec(ty)
                  THEN LET elem == extract_type_from_generic(ty)
                       IN  IF elem.kind # "Ok" THEN elem
                           ELSE getters_loop(Tail(fields),
                                    Append(tokens, Getter(field.ident.name, "&[T]", elem.val, ty)))
             ELSE getters_loop(Tail(fields),
                      Append(tokens, Getter(field.ident.name, "&T", "", ty)))

generate_getters(fields) ==
    getters_loop(SelectSeq(fields.list, has_getter_attr), <<>>)

generate_struct_impl(derive_input) ==
    LET fields == get_struct_fields(derive_input)
    IN  IF fields.kind # "Ok" THEN fields
        ELSE LET getters == generate_getters(fields.val)
             IN  IF getters.kind # "Ok" THEN getters
                 ELSE Ok([struct_name |-> derive_input.ident, getters |-> getters.val])

NoBuildImpl ==
    [present |-> FALSE, struct_name |-> "", builder_name |-> "",
     let_stmts |-> <<>>, field_names |-> <<>>]

RECURSIVE build_impl_loop(_, _, _)
build_impl_loop(fields, let_stmts, field_names) ==
    IF fields = <<>> THEN Ok([let_stmts |-> let_stmts, field_names |-> field_names])
    ELSE LET field == Head(fields)
         IN  IF ~field.ident.some THEN Panic("unwrap on a None value")
             ELSE LET let_stmt ==
                          IF has_optional_attr(field)
                          THEN [field_name |-> field.ident.name, stmt |-> "unwrap_or_default",
                                missing |-> ""]
                          ELSE [field_name |-> field.ident.name, stmt |-> "ok_or_else",
                                missing |-> field.ident.name]
                  IN  build_impl_loop(Tail(fields), Append(let_stmts, let_stmt),
                                      Append(field_names, field.ident.name))

generate_build_impl(derive_input) ==
    LET builder_name == generate_builder_name(derive_input)
        fields == get_struct_fields(derive_input)
    IN  IF builder_name.kind # "Ok" THEN builder_name
        ELSE IF fields.kind # "Ok" THEN fields
        ELSE LET stmts == build_impl_loop(fields.val.list, <<>>, <<>>)
             IN  IF stmts.kind # "Ok" THEN stmts
                 ELSE Ok([present |-> TRUE,
                          struct_name |-> derive_input.ident,
                          builder_name |-> builder_name.val,
                          let_stmts |-> stmts.val.let_stmts,
                          field_names |-> stmts.val.field_names])

RECURSIVE builder_struct_loop(_, _, _)
builder_struct_loop(fields, setters, field_names) ==
    IF fields = <<>> THEN Ok([setters |-> setters, field_names |-> field_names])
    ELSE LET field == Head(fields)
         IN  IF ~field.ident.some THEN Panic("unwrap on a None value")
             ELSE builder_struct_loop(Tail(fields),
                      Append(setters, [name |-> "with_" \o field.ident.name,
                                       field_name |-> field.ident.name,
                                       ty |-> field.ty]),
                      Append(field_names, [name |-> field.ident.name, ty |-> field.ty]))

\* generate_builder_struct going over the #[getter] fields alone, as
\* generate_getters does.
generate_builder_struct_getters_only(derive_input) ==
    LET builder_name == generate_builder_name(derive_input)
        fields == get_struct_fields(derive_input)
    IN  IF builder_name.kind # "Ok" THEN builder_name
        ELSE IF fields.kind # "Ok" THEN fields
        ELSE LET body == builder_struct_loop(SelectSeq(fields.val.list, has_getter_attr),
                                             <<>>, <<>>)
                 build_impl == IF has_gen_build_fn_attr(derive_input.attrs)
                               THEN generate_build_impl(derive_input)
                               ELSE Ok(NoBuildImpl)
             IN  IF body.kind # "Ok" THEN body
                 ELSE IF build_impl.kind # "Ok" THEN build_impl
                 ELSE Ok([struct_name |-> builder_name.val,
                          field_names |-> body.val.field_names,
                          impl_name |-> builder_name.val,
                          setters |-> body.val.setters,
                          build_impl |-> build_impl.val])

generate_builder_struct(derive_input) ==
    LET builder_name == generate_builder_name(derive_input)
        fields == get_struct_fields(derive_input)
    IN  IF builder_name.kind # "Ok" THEN builder_name
        ELSE IF fields.kind # "Ok" THEN fields
        ELSE LET body == builder_struct_loop(fields.val.list, <<>>, <<>>)
                 build_impl == IF has_gen_build_fn_attr(derive_input.attrs)
                               THEN generate_build_impl(derive_input)
                               ELSE Ok(NoBuildImpl)
             IN  IF body.kind # "Ok" THEN body
                 ELSE IF build_impl.kind # "Ok" THEN build_impl
                 ELSE Ok([struct_name |-> builder_name.val,
                          field_names |-> body.val.field_names,
                          impl_name |-> builder_name.val,
                          setters |-> body.val.setters,
                          build_impl |-> build_impl.val])

generate_builder_macro(derive_input) ==
    LET struct_impl == generate_struct_impl(derive_input)
    IN  IF struct_impl.kind # "Ok" THEN struct_impl
        ELSE LET builder_struct == generate_builder_struct(derive_input)
             IN  IF builder_struct.kind # "Ok" THEN builder_struct
                 ELSE Ok([struct_impl |-> struct_impl.val,
                          builder_struct |-> builder_struct.val])

\* What the compiler gets back from the derive: the generated unit, or the
\* compile_error! of a syn::Error and nothing else; a panic aborts the pass.
NoUnit ==
    [struct_impl |-> [struct_name |-> "", getters |-> <<>>],
     builder_struct |-> [struct_name |-> "", field_names |-> <<>>, impl_name |-> "",
                         setters |-> <<>>, build_impl |-> NoBuildImpl]]

NoOutput == [kind |-> "None", unit |-> NoUnit, compile_error |-> ""]

expand(derive_input) ==
    LET r == generate_builder_macro(derive_input)
    IN  CASE r.kind = "Ok" -> [kind |-> "Tokens", unit |-> r.val, compile_error |-> ""]
          [] r.kind = "Err" -> [kind |-> "CompileError", unit |-> NoUnit, compile_error |-> r.msg]
          [] OTHER -> [kind |-> "Panicked", unit |-> NoUnit, compile_error |-> ""]

----------------------------------------------------------------------------
(* The generated code at run time.  A value carries its type tag; text is  *)
(* in s, the elements of a sequence in v.                                  *)

Text(s) == [t |-> "String", s |-> s, v |-> <<>>]
Bool(s) == [t |-> "bool", s |-> s, v |-> <<>>]
VecOf(v) == [t |-> "Vec", s |-> "", v |-> v]
Opaque(s) == [t |-> "Opaque", s |-> s, v |-> <<>>]

\* <T as Default>::default()
Default(ty) ==
    CASE is_string(ty) -> Text("")
      [] is_vec(ty) -> VecOf(<<>>)
      [] is_type("bool", ty) -> Bool("false")
      [] OTHER -> Opaque("default")

\* The values of a type a caller passes to a setter in this model.
Values(ty) ==
    CASE is_string(ty) -> {Text(""), Text("wut1234")}
      [] is_vec(ty) -> {VecOf(<<>>), VecOf(<<"tim", "jimmy">>)}
      [] is_type("bool", ty) -> {Bool("false"), Bool("true")}
      [] OTHER -> {Opaque("default"), Opaque("other")}

None == [some |-> FALSE, val |-> Opaque("")]
Some(v) == [some |-> TRUE, val |-> v]

NoBuilder == [state |-> "none", boxes |-> <<>>]
NoResult == [kind |-> "None", value |-> <<>>, missing_field |-> ""]

BuilderFieldNames(builder_struct) ==
    {builder_struct.field_names[i].name : i \in 1..Len(builder_struct.field_names)}

\* <Name>Builder::new(): #[derive(Default)] on a struct of Options
builder_new(builder_struct) ==
    [state |-> "live", boxes |-> [f \in BuilderFieldNames(builder_struct) |-> None]]

\* A setter that keeps a value already set.
setter_call_keep_first(self, setter, value) ==
    IF self.boxes[setter.field_name].some THEN self
    ELSE [self EXCEPT !.boxes[setter.field_name] = Some(value)]

\* pub fn with_<field>(mut self, value) -> Self { self.<field> = Some(value); self }
setter_call(self, setter, value) ==
    [self EXCEPT !.boxes[setter.field_name] = Some(value)]

field_type(builder_struct, name) ==
    LET i == CHOOSE i \in 1..Len(builder_struct.field_names) :
                 builder_struct.field_names[i].name = name
    IN  builder_struct.field_names[i].ty

\* One let statement of build():
\*   let f = self.f.unwrap_or_default();
\*   let f = self.f.ok_or_else(|| BuilderError::MissingField(stringify!(f).into()))?;
let_stmt_default_always(st, box, ty) ==
    IF st.stmt = "unwrap_or_default" THEN Ok(Default(ty))
    ELSE IF box.some THEN Ok(box.val) ELSE Err(st.missing)

let_stmt(st, box, ty) ==
    IF st.stmt = "unwrap_or_default"
    THEN Ok(IF box.some THEN box.val ELSE Default(ty))
    ELSE IF box.some THEN Ok(box.val) ELSE Err(st.missing)

\* fn build(self): the let statements in order, `?` leaving at the first
\* absent required field.
RECURSIVE build_loop(_, _, _, _)
build_loop(let_stmts, self, builder_struct, locals) ==
    IF let_stmts = <<>> THEN Ok(locals)
    ELSE LET st == Head(let_stmts)
             r == let_stmt(st, self.boxes[st.field_name],
                           field_type(builder_struct, st.field_name))
         IN  IF r.kind # "Ok" THEN r
             ELSE build_loop(Tail(let_stmts), self, builder_struct,
                             locals @@ (st.field_name :> r.val))

\* build() with its let statements run last field first.
build_last_first(self, builder_struct) ==
    LET impl == builder_struct.build_impl
        n == Len(impl.let_stmts)
        r == build_loop([i \in 1..n |-> impl.let_stmts[n + 1 - i]], self, builder_struct, <<>>)
    IN  IF r.kind = "Ok"
        THEN [kind |-> "Ok",
              value |-> [i \in 1..Len(impl.field_names) |->
                            [name |-> impl.field_names[i], val |-> r.val[impl.field_names[i]]]],
              missing_field |-> ""]
        ELSE [kind |-> "Err", value |-> <<>>, missing_field |-> r.msg]

\* fn build(self) -> Result<Struct, BuilderError>: the let statements, then
\* Ok(Struct { field_names, ... }) over the locals.
build(self, builder_struct) ==
    LET impl == builder_struct.build_impl
        r == build_loop(impl.let_stmts, self, builder_struct, <<>>)
    IN  IF r.kind = "Ok"
        THEN [kind |-> "Ok",
              value |-> [i \in 1..Len(impl.field_names) |->
                            [name |-> impl.field_names[i], val |-> r.val[impl.field_names[i]]]],
              missing_field |-> ""]
        ELSE [kind |-> "Err", value |-> <<>>, missing_field |-> r.msg]

NoView == [name |-> "", kind |-> "None", elem |-> "", of |-> "", s |-> "", v |-> <<>>]

field_value(instance, name) ==
    instance[CHOOSE i \in 1..Len(instance) : instance[i].name = name].val

\* pub fn #name(&self) -> &str / &[#ty] / &#ty { &self.#name }: the text of a
\* String, the elements of a Vec, or the value itself, behind a reference.
accessor_call(instance, getter) ==
    LET val == field_value(instance, getter.name)
    IN  CASE getter.kind = "&str" ->
                 [name |-> getter.name, kind |-> "&str", elem |-> "", of |-> "str",
                  s |-> val.s, v |-> <<>>]
          [] getter.kind = "&[T]" ->
                 [name |-> getter.name, kind |-> "&[T]", elem |-> getter.elem, of |-> "slice",
                  s |-> "", v |-> val.v]
          [] OTHER ->
                 [name |-> getter.name, kind |-> "&T", elem |-> "", of |-> val.t,
                  s |-> val.s, v |-> val.v]

----------------------------------------------------------------------------
(* The declarations the macro is applied to.                               *)

FieldNames == <<"public_key", "wears_crocks", "known_enemies", "role", "org_id">>

TString == TypePath(<<Segment("String", NoArguments)>>)
TBool == TypePath(<<Segment("bool", NoArguments)>>)
TVecString == TypePath(<<Segment("Vec", AngleBracketed(<<TypeArg("String")>>))>>)
TVecU8 == TypePath(<<Segment("Vec", AngleBracketed(<<TypeArg("u8")>>))>>)
TVecBare == TypePath(<<Segment("Vec", NoArguments)>>)
TVecEmpty == TypePath(<<Segment("Vec", AngleBracketed(<<>>))>>)
TVecLifetime == TypePath(<<Segment("Vec", AngleBracketed(<<LifetimeArg("a")>>))>>)
TVecTwo == TypePath(<<Segment("Vec", AngleBracketed(<<TypeArg("u8"), TypeArg("Global")>>))>>)
TStdVec == TypePath(<<Segment("std", NoArguments), Segment("vec", NoArguments),
                      Segment("Vec", AngleBracketed(<<TypeArg("u8")>>))>>)
TRefStr == TypeReference("str")

SimpleTypes == {TString, TBool}
AllTypes == {TString, TBool, TVecString, TVecU8, TVecBare, TVecEmpty, TVecLifetime,
             TVecTwo, TStdVec, TRefStr}

AccessTypes == {TString, TBool, TVecString, TVecTwo, TVecBare, TRefStr}

AGetter == Attribute(<<"getter">>, "Empty", NoLit)
AOptional == Attribute(<<"optional">>, "Empty", NoLit)
ASerde == Attribute(<<"serde">>, "Paren", NoLit)
AGetterJunk == Attribute(<<"getter">>, "Junk", NoLit)
AOptionalList == Attribute(<<"optional">>, "Paren", NoLit)

RunFieldAttrs == {<<>>, <<AOptional>>, <<AGetter, AOptional>>}
AllFieldAttrs == RunFieldAttrs \cup
                 {<<AGetter>>, <<ASerde>>, <<ASerde, AGetter>>, <<AGetterJunk>>,
                  <<AOptionalList>>}

AGenBuildImpl == Attribute(<<"gen_build_impl">>, "Empty", NoLit)
ABuilderName(s) == Attribute(<<"builder_name">>, "EqLit", LitStr(s))
ABuilderNameWord == Attribute(<<"builder_name">>, "Empty", NoLit)
ABuilderNameInt == Attribute(<<"builder_name">>, "EqLit", LitInt("7"))
ABuilderNameList == Attribute(<<"builder_name">>, "Paren", NoLit)
ADoc == Attribute(<<"doc">>, "EqLit", LitStr("an agent"))

StructAttrs == {AGenBuildImpl, ABuilderName("OrgBuilder"), ABuilderName("Bar"),
                ABuilderName("org builder"), ABuilderNameWord, ABuilderNameInt,
                ABuilderNameList, ADoc}

SeqsUpTo(S, n) == UNION {[1..k -> S] : k \in 0..n}

FieldChoice(ty, attrs) == [ty |-> ty, attrs |-> attrs]

FieldLists(choices, named) ==
    {[i \in 1..Len(c) |->
         Field(IF named THEN SomeIdent(FieldNames[i]) ELSE NoIdent, c[i].ty, c[i].attrs)] :
     c \in SeqsUpTo(choices, MaxFields)}

Fields(style, list) == [style |-> style, list |-> list]
DataStruct(fields) == [kind |-> "Struct", fields |-> fields]
DataEnum == [kind |-> "Enum", fields |-> Fields("Unit", <<>>)]
DataUnion == [kind |-> "Union", fields |-> Fields("Unit", <<>>)]

DeriveInput(ident, attrs, data) == [ident |-> ident, attrs |-> attrs, data |-> data]

\* Records whose fields vary in presence of #[optional] and #[getter]: the
\* declarations whose builders are run.
RunDeclarations ==
    {DeriveInput("Agent", <<AGenBuildImpl>>, DataStruct(Fields("Named", list))) :
        list \in FieldLists({FieldChoice(ty, attrs) : ty \in SimpleTypes, attrs \in RunFieldAttrs},
                            TRUE)}

\* The directives of the declaration vary, over one fixed record.
AttrDeclarations ==
    {DeriveInput("Organization", attrs,
         DataStruct(Fields("Named", <<Field(SomeIdent("org_id"), TString, <<AGetter>>)>>))) :
        attrs \in SeqsUpTo(StructAttrs, MaxAttrs)}

\* The fields' types and directives vary.
FieldDeclarations ==
    {DeriveInput("Agent", attrs, DataStruct(Fields("Named", list))) :
        attrs \in {<<>>, <<AGenBuildImpl>>},
        list \in FieldLists(
            {FieldChoice(ty, attrs) : ty \in AllTypes, attrs \in {<<>>, <<AGetter>>}}
            \cup {FieldChoice(ty, attrs) : ty \in SimpleTypes, attrs \in AllFieldAttrs},
            TRUE)}

\* The shape of the declaration varies: enum, union, tuple struct, unit struct.
ShapeDeclarations ==
    {DeriveInput("Shape", attrs, data) :
        attrs \in {<<>>, <<AGenBuildImpl>>},
        data \in {DataEnum, DataUnion, DataStruct(Fields("Unit", <<>>))}
                 \cup {DataStruct(Fields("Unnamed", list)) :
                          list \in FieldLists({FieldChoice(TString, attrs) :
                                                  attrs \in {<<>>, <<AGetter>>}}, FALSE)}}

\* Records of exposed fields of every kind of type: the declarations whose
\* accessors are called.
AccessDeclarations ==
    {DeriveInput("Agent", <<AGenBuildImpl>>, DataStruct(Fields("Named", list))) :
        list \in FieldLists({FieldChoice(ty, <<AGetter>>) : ty \in AccessTypes}, TRUE)}

GenDeclarations == AttrDeclarations \cup FieldDeclarations \cup ShapeDeclarations

----------------------------------------------------------------------------
(* The state machine.                                                      *)

InitWith(declarations) ==
    /\ decl \in declarations
    /\ pc = "parsed"
    /\ local_struct_impl = NotRun
    /\ local_builder_struct = NotRun
    /\ output = NoOutput
    /\ builder = NoBuilder
    /\ result = NoResult
    /\ calls = <<>>
    /\ view = NoView

Init == InitWith(RunDeclarations)

InitGen == InitWith(GenDeclarations)

InitGet == InitWith(AccessDeclarations)

\* The history keeps the last two arguments of each setter.
LastTwo(args) == IF Len(args) > 2 THEN Tail(args) ELSE args

\* #[proc_macro_derive(Builder, ...)] pub fn derive_builder
derive_builder ==
    /\ pc = "parsed"
    /\ local_struct_impl' = generate_struct_impl(decl)
    /\ local_builder_struct' =
           IF local_struct_impl'.kind = "Ok" THEN generate_builder_struct(decl) ELSE NotRun
    /\ output' = expand(decl)
    /\ pc' = "expanded"
    /\ UNCHANGED <<decl, builder, result, calls, view>>

\* let builder = <Name>Builder::new();
new ==
    /\ pc = "expanded"
    /\ output.kind = "Tokens"
    /\ builder.state = "none"
    /\ builder' = builder_new(output.unit.builder_struct)
    /\ calls' = [i \in 1..Len(decl.data.fields.list) |-> <<>>]
    /\ UNCHANGED <<decl, pc, local_struct_impl, local_builder_struct, output, result, view>>

\* builder = builder.with_<field>(value);
with ==
    /\ builder.state = "live"
    /\ \E i \in 1..Len(output.unit.builder_struct.setters) :
          LET setter == output.unit.builder_struct.setters[i]
          IN  \E value \in Values(setter.ty) :
                 /\ builder' = setter_call(builder, setter, value)
                 /\ calls' = [calls EXCEPT ![i] = LastTwo(Append(@, value))]
    /\ UNCHANGED <<decl, pc, local_struct_impl, local_builder_struct, output, result, view>>

\* let r = builder.build();   (the builder is moved into the call)
build_call ==
    /\ builder.state = "live"
    /\ output.unit.builder_struct.build_impl.present
    /\ result' = build(builder, output.unit.builder_struct)
    /\ builder' = [builder EXCEPT !.state = "moved"]
    /\ UNCHANGED <<decl, pc, local_struct_impl, local_builder_struct, output, calls, view>>

\* let v = agent.<field>();
get ==
    /\ result.kind = "Ok"
    /\ \E k \in 1..Len(output.unit.struct_impl.getters) :
          view' = accessor_call(result.value, output.unit.struct_impl.getters[k])
    /\ UNCHANGED <<decl, pc, local_struct_impl, local_builder_struct, output, builder, result,
                   calls>>

Next == derive_builder \/ new \/ with \/ build_call \/ get

NextGen == derive_builder

Spec == Init /\ [][Next]_vars

SpecGen == InitGen /\ [][NextGen]_vars

SpecGet == InitGet /\ [][Next]_vars

----------------------------------------------------------------------------
(* What the claims speak of, read off the declaration itself.              *)

DeclFields == decl.data.fields.list

\* The field carries a well-formed #[optional] directive.
Defaultable(field) ==
    \E i \in 1..Len(field.attrs) :
        field.attrs[i].path = <<"optional">> /\ field.attrs[i].tts # "Junk"

Box(i) == builder.boxes[DeclFields[i].ident.name]

MissingRequired(i) == ~Defaultable(DeclFields[i]) /\ ~Box(i).some

Built == builder.state = "moved" /\ result.kind # "None"

\* The default value of a declared type: empty text, false, the empty sequence.
TypeDefault(ty) ==
    CASE ty = TString -> Text("")
      [] ty = TBool -> Bool("false")
      [] OTHER -> VecOf(<<>>)

----------------------------------------------------------------------------
(* C1: build() returns Ok if and only if every field not marked            *)
(* #[optional] has its presence box present; the boxes of #[optional]      *)
(* fields do not matter.                                                   *)
C1_BuildOkIffRequiredPresent ==
    Built =>
        (result.kind = "Ok" <=> \A i \in 1..Len(DeclFields) : ~MissingRequired(i))

\* build() succeeded on a builder with a required field set and an
\* #[optional] field never set.
C1_Witness ==
    /\ Built /\ result.kind = "Ok"
    /\ \E i \in 1..Len(DeclFields) : ~Defaultable(DeclFields[i]) /\ Box(i).some
    /\ \E i \in 1..Len(DeclFields) : Defaultable(DeclFields[i]) /\ ~Box(i).some

(* C2: when build() fails, the error is MissingField(f) for the first      *)
(* field f, in declared order, that is absent and not #[optional],         *)
(* whatever the boxes of the fields after it hold.                         *)
C2_FirstMissingFieldReported ==
    (Built /\ result.kind = "Err") =>
        \E i \in 1..Len(DeclFields) :
            /\ MissingRequired(i)
            /\ \A j \in 1..(i - 1) : ~MissingRequired(j)
            /\ result.missing_field = DeclFields[i].ident.name
            /\ result.value = <<>>

\* build() failed with two required fields absent.
C2_Witness ==
    /\ Built /\ result.kind = "Err"
    /\ \E i, j \in 1..Len(DeclFields) : i < j /\ MissingRequired(i) /\ MissingRequired(j)

(* C3: when build() succeeds, each field of the instance, in declared      *)
(* order, holds the value of its presence box when present, and the        *)
(* default of its type when it is #[optional] and absent.                  *)
C3_BuiltFieldValues ==
    (Built /\ result.kind = "Ok") =>
        /\ Len(result.value) = Len(DeclFields)
        /\ \A i \in 1..Len(DeclFields) :
              /\ result.value[i].name = DeclFields[i].ident.name
              /\ Box(i).some => result.value[i].val = Box(i).val
              /\ (~Box(i).some /\ Defaultable(DeclFields[i])) =>
                     result.value[i].val = TypeDefault(DeclFields[i].ty)

\* build() succeeded with one text field set to a non-default value and an
\* #[optional] text field left unset, which reads back as the empty string.
C3_Witness ==
    /\ Built /\ result.kind = "Ok"
    /\ \E i, j \in 1..Len(DeclFields) :
          /\ Box(i).some /\ result.value[i].val = Text("wut1234")
          /\ ~Box(j).some /\ DeclFields[j].ty = TString /\ result.value[j].val = Text("")

(* C4: after any sequence of setter calls from new(), each presence box    *)
(* holds the argument of the last call of its field's setter, and is       *)
(* absent when that setter was never called; no setter call produces an    *)
(* error.                                                                  *)
C4_SettersLastWriteWins ==
    builder.state # "none" =>
        /\ DOMAIN builder.boxes = {DeclFields[i].ident.name : i \in 1..Len(DeclFields)}
        /\ \A i \in 1..Len(DeclFields) :
              IF calls[i] = <<>> THEN ~Box(i).some
              ELSE Box(i).some /\ Box(i).val = calls[i][Len(calls[i])]
        /\ builder.state = "live" => result.kind = "None"

\* One setter was called twice with different values, another never.
C4_Witness ==
    /\ builder.state = "live"
    /\ \E i, j \in 1..Len(DeclFields) :
          /\ Len(calls[i]) = 2 /\ calls[i][1] # calls[i][2]
          /\ Box(i).val = calls[i][2]
          /\ calls[j] = <<>> /\ ~Box(j).some

----------------------------------------------------------------------------
(* The generation pass, read off the declaration.                          *)

Expanded == pc = "expanded"

Generated == Expanded /\ output.kind = "Tokens"

\* A record of named fields: a struct none of whose fields lacks a name.
NamedRecord ==
    decl.data.kind = "Struct" /\ \A i \in 1..Len(DeclFields) : DeclFields[i].ident.some

\* The field carries a well-formed #[getter] directive.
Exposed(field) ==
    \E i \in 1..Len(field.attrs) :
        field.attrs[i].path = <<"getter">> /\ field.attrs[i].tts # "Junk"

IsBuilderNameDirective(attr) == attr.path = <<"builder_name">>

\* #[builder_name = "<string literal>"]
WellFormedName(attr) ==
    IsBuilderNameDirective(attr) /\ attr.tts = "EqLit" /\ attr.lit.kind = "Str"

\* #[builder_name] with no argument, or with an argument that is no string literal
MalformedName(attr) == IsBuilderNameDirective(attr) /\ ~WellFormedName(attr)

WellFormedAt == {i \in 1..Len(decl.attrs) : WellFormedName(decl.attrs[i])}

FirstOf(S) == CHOOSE i \in S : \A j \in S : i <= j

\* The companion's name as the claims give it.
ExpectedBuilderName ==
    IF WellFormedAt = {} THEN decl.ident \o "Builder"
    ELSE decl.attrs[FirstOf(WellFormedAt)].lit.value

CarriesGenBuildImpl ==
    \E i \in 1..Len(decl.attrs) : decl.attrs[i].path = <<"gen_build_impl">>

----------------------------------------------------------------------------
(* C5: the companion type is named by the (first) #[builder_name = "..."]  *)
(* string, verbatim, when the declaration carries one, and                 *)
(* <DeclarationName>Builder otherwise; the struct definition, its impl     *)
(* block and the impl of Build carry the same name.                        *)
C5_CompanionName ==
    Generated =>
        LET bs == output.unit.builder_struct
        IN  /\ bs.struct_name = ExpectedBuilderName
            /\ bs.impl_name = ExpectedBuilderName
            /\ bs.build_impl.present => bs.build_impl.builder_name = ExpectedBuilderName

\* A declaration with #[gen_build_impl] and #[builder_name = "OrgBuilder"]
\* was expanded and all three places carry OrgBuilder.
C5_Witness ==
    /\ Generated
    /\ decl.ident = "Organization"
    /\ WellFormedAt # {}
    /\ output.unit.builder_struct.struct_name = "OrgBuilder"
    /\ output.unit.builder_struct.build_impl.present
    /\ output.unit.builder_struct.build_impl.builder_name = "OrgBuilder"

(* C6 as claimed: a #[builder_name] directive with no argument or with a   *)
(* non-string argument makes the generation pass fail with an error and    *)
(* emit no code; it never falls back to <DeclarationName>Builder.          *)
C6_MalformedNameFails ==
    (Expanded /\ \E i \in 1..Len(decl.attrs) : MalformedName(decl.attrs[i])) =>
        output.kind = "CompileError" /\ output.unit = NoUnit

WithoutMalformedNames(derive_input) ==
    [derive_input EXCEPT !.attrs = SelectSeq(@, LAMBDA a : ~MalformedName(a))]

(* C6 as amended: a #[builder_name] directive with no argument or with a   *)
(* non-string argument raises no error; it is ignored, the pass giving     *)
(* what it gives for the declaration without it, so that with no           *)
(* well-formed #[builder_name] the name is <DeclarationName>Builder.       *)
C6_MalformedNameIgnored ==
    (Expanded /\ \E i \in 1..Len(decl.attrs) : MalformedName(decl.attrs[i])) =>
        /\ output.kind # "CompileError"
        /\ output = expand(WithoutMalformedNames(decl))
        /\ (NamedRecord /\ WellFormedAt = {}) =>
               /\ output.kind = "Tokens"
               /\ output.unit.builder_struct.struct_name = decl.ident \o "Builder"

\* #[builder_name] without an argument and #[builder_name = 7] were expanded
\* into a companion named OrganizationBuilder.
C6_Witness ==
    /\ Generated
    /\ decl.attrs = <<ABuilderNameWord, ABuilderNameInt>>
    /\ output.unit.builder_struct.struct_name = "OrganizationBuilder"

----------------------------------------------------------------------------
(* Sequence-typed fields, read off the declared type.                      *)

\* A Vec<..> that is not taken for text.
SequenceTyped(ty) ==
    /\ ty.kind = "Path"
    /\ \E i \in 1..Len(ty.segments) : ty.segments[i].ident = "Vec"
    /\ \A i \in 1..Len(ty.segments) : ty.segments[i].ident # "String"

\* The type parameters of the declared type, in order.
TypeParameters(ty) ==
    LET last == ty.segments[Len(ty.segments)].arguments.args
    IN  SelectSeq(last, LAMBDA a : a.kind = "Type")

AllParameters(ty) == ty.segments[Len(ty.segments)].arguments.args

ExposedSequences ==
    {i \in 1..Len(DeclFields) : Exposed(DeclFields[i]) /\ SequenceTyped(DeclFields[i].ty)}

GetterOf(name) ==
    LET getters == local_struct_impl.val.getters
    IN  getters[CHOOSE k \in 1..Len(getters) : getters[k].name = name]

\* The first generic argument of the first path segment is a type.
FirstArgumentIsType(ty) ==
    /\ ty.segments[1].arguments.kind = "AngleBracketed"
    /\ Len(ty.segments[1].arguments.args) > 0
    /\ ty.segments[1].arguments.args[1].kind = "Type"

(* C7 as claimed: accessor generation for an exposed sequence-typed field  *)
(* fails whenever the declared type has zero type parameters, more than    *)
(* one, or a parameter that is no type; it succeeds only with exactly one  *)
(* type parameter, which is the accessor's element type.                   *)
C7_ExactlyOneParameter ==
    (Expanded /\ NamedRecord) =>
        /\ (\E i \in ExposedSequences :
               \/ Len(TypeParameters(DeclFields[i].ty)) # 1
               \/ Len(AllParameters(DeclFields[i].ty)) # 1)
           => (local_struct_impl.kind = "Err" /\ output.kind = "CompileError")
        /\ local_struct_impl.kind = "Ok" =>
               \A i \in ExposedSequences :
                   /\ Len(TypeParameters(DeclFields[i].ty)) = 1
                   /\ GetterOf(DeclFields[i].ident.name).elem =
                          TypeParameters(DeclFields[i].ty)[1].name

(* C7 as amended: accessor generation for an exposed sequence-typed field  *)
(* fails, with "Type does not have generic", exactly when the first path   *)
(* segment of the declared type has no angle-bracketed arguments, has an   *)
(* empty list of them, or has a first argument that is no type; otherwise  *)
(* it succeeds and the first argument is the accessor's element type,      *)
(* whatever arguments follow it.                                           *)
C7_FirstParameterExtracted ==
    (Expanded /\ NamedRecord) =>
        IF \E i \in ExposedSequences : ~FirstArgumentIsType(DeclFields[i].ty)
        THEN /\ local_struct_impl = Err("Type does not have generic")
             /\ output.kind = "CompileError"
             /\ output.compile_error = "Type does not have generic"
        ELSE /\ local_struct_impl.kind = "Ok"
             /\ \A i \in ExposedSequences :
                   LET getter == GetterOf(DeclFields[i].ident.name)
                   IN  /\ getter.kind = "&[T]"
                       /\ getter.elem = DeclFields[i].ty.segments[1].arguments.args[1].name

\* An exposed field of type Vec<u8, Global> got an accessor over u8.
C7_Witness ==
    /\ Generated
    /\ \E i \in ExposedSequences :
          /\ DeclFields[i].ty = TVecTwo
          /\ GetterOf(DeclFields[i].ident.name).elem = "u8"

(* C8: a declaration that is not a record of named fields (an enum, a      *)
(* union, a struct with unnamed fields) makes the generation pass fail     *)
(* with an error, and a failed pass returns the error alone, no accessor,  *)
(* companion type or validator code.                                       *)
C8_NonRecordFailsWithError ==
    Expanded =>
        /\ ~NamedRecord =>
               /\ output.kind = "CompileError"
               /\ output.compile_error = "builder is only compatible with stucts"
        /\ output.kind # "Tokens" => output.unit = NoUnit

(* C9: the impl of Build is emitted if and only if the declaration carries *)
(* #[gen_build_impl], at whatever position among its directives; without   *)
(* it the unit holds only the accessors and the companion type with its    *)
(* setters.                                                                *)
C9_BuildImplIffDirective ==
    Generated =>
        LET bs == output.unit.builder_struct
        IN  /\ bs.build_impl.present <=> CarriesGenBuildImpl
            /\ ~CarriesGenBuildImpl => bs.build_impl = NoBuildImpl
            /\ CarriesGenBuildImpl => bs.build_impl.struct_name = decl.ident
            /\ Len(bs.setters) = Len(DeclFields)
            /\ Len(bs.field_names) = Len(DeclFields)

\* #[gen_build_impl] stood second, after another directive, and the impl of
\* Build was emitted.
C9_Witness ==
    /\ Generated
    /\ Len(decl.attrs) = 2
    /\ decl.attrs[1].path # <<"gen_build_impl">>
    /\ decl.attrs[2].path = <<"gen_build_impl">>
    /\ output.unit.builder_struct.build_impl.present

ExposedNames ==
    LET exposed == SelectSeq(DeclFields, Exposed)
    IN  [k \in 1..Len(exposed) |-> exposed[k].ident.name]

Recognized(attr) == attr.path \in {<<"getter">>, <<"optional">>}

WithoutUnrecognized(derive_input) ==
    [derive_input EXCEPT !.data.fields.list =
        [i \in 1..Len(@) |-> [@[i] EXCEPT !.attrs = SelectSeq(@, Recognized)]]]

(* C10: the accessors are one per field flagged #[getter], named as the    *)
(* field, in declared field order; a field without #[getter] gets none,    *)
(* and directives the macro does not know change neither the accessors     *)
(* nor the outcome of the pass.                                            *)
C10_AccessorsPerExposedField ==
    (Expanded /\ NamedRecord) =>
        /\ output.kind = "Tokens" =>
               [k \in 1..Len(output.unit.struct_impl.getters) |->
                   output.unit.struct_impl.getters[k].name] = ExposedNames
        /\ output.kind = expand(WithoutUnrecognized(decl)).kind
        /\ output.unit.struct_impl = expand(WithoutUnrecognized(decl)).unit.struct_impl

\* Two exposed fields, the first also under an unknown directive, got their
\* two accessors in declared order.
C10_Witness ==
    /\ Generated
    /\ Len(DeclFields) = 2
    /\ DeclFields[1].attrs = <<ASerde, AGetter>>
    /\ DeclFields[2].attrs = <<AGetter>>
    /\ Len(output.unit.struct_impl.getters) = 2
    /\ output.unit.struct_impl.getters[1].name = DeclFields[1].ident.name
    /\ output.unit.struct_impl.getters[2].name = DeclFields[2].ident.name

----------------------------------------------------------------------------
(* Accessor shapes, read off the declared type.                            *)

TextTyped(ty) == ty = TString

ElementType(ty) == TypeParameters(ty)[1].name

ExpectedShape(ty) ==
    IF TextTyped(ty) THEN "&str"
    ELSE IF SequenceTyped(ty) THEN "&[T]"
    ELSE "&T"

FieldIndex(name) == CHOOSE i \in 1..Len(DeclFields) : DeclFields[i].ident.name = name

(* C11: the return shape of an exposed field's accessor follows from the   *)
(* declared type alone: &str for String, &[T] for a Vec of T (a Vec of     *)
(* String included, which is a sequence and not text), a reference to the  *)
(* declared type for anything else; the view over a sequence has the       *)
(* length and the element order of the backing sequence.                   *)
C11_AccessorShape ==
    /\ (Expanded /\ local_struct_impl.kind = "Ok") =>
           \A i \in 1..Len(DeclFields) :
               Exposed(DeclFields[i]) =>
                   LET getter == GetterOf(DeclFields[i].ident.name)
                       ty == DeclFields[i].ty
                   IN  /\ getter.kind = ExpectedShape(ty)
                       /\ SequenceTyped(ty) => getter.elem = ElementType(ty)
                       /\ getter.kind = "&T" => getter.ty = ty
    /\ view.kind # "None" =>
           LET i == FieldIndex(view.name)
               backing == result.value[i].val
           IN  /\ view.kind = ExpectedShape(DeclFields[i].ty)
               /\ view.kind = "&str" => view.s = backing.s
               /\ view.kind = "&[T]" =>
                      /\ view.elem = ElementType(DeclFields[i].ty)
                      /\ Len(view.v) = Len(backing.v)
                      /\ \A k \in 1..Len(backing.v) : view.v[k] = backing.v[k]
               /\ view.kind = "&T" =>
                      view.of = backing.t /\ view.s = backing.s /\ view.v = backing.v

\* The accessor of a Vec<String> field set to <<"tim", "jimmy">> returned a
\* slice of String with these two elements in this order.
C11_Witness ==
    /\ view.kind = "&[T]"
    /\ view.elem = "String"
    /\ DeclFields[FieldIndex(view.name)].ty = TVecString
    /\ Box(FieldIndex(view.name)).val = VecOf(<<"tim", "jimmy">>)
    /\ view.v = <<"tim", "jimmy">>

----------------------------------------------------------------------------
(* C12: for a record of N fields the companion type has N presence-boxed   *)
(* fields with the names, declared types and order of the record's fields, *)
(* one setter with_<field> per field, and new() returns an instance whose  *)
(* boxes are all absent, whatever #[getter] and #[optional] the fields     *)
(* carry.                                                                  *)
C12_CompanionMirrorsFields ==
    /\ Generated =>
           LET bs == output.unit.builder_struct
           IN  /\ Len(bs.field_names) = Len(DeclFields)
               /\ Len(bs.setters) = Len(DeclFields)
               /\ \A i \in 1..Len(DeclFields) :
                     /\ bs.field_names[i].name = DeclFields[i].ident.name
                     /\ bs.field_names[i].ty = DeclFields[i].ty
                     /\ bs.setters[i].name = "with_" \o DeclFields[i].ident.name
                     /\ bs.setters[i].field_name = DeclFields[i].ident.name
                     /\ bs.setters[i].ty = DeclFields[i].ty
    /\ (builder.state = "live" /\ \A i \in 1..Len(DeclFields) : calls[i] = <<>>) =>
           /\ Cardinality(DOMAIN builder.boxes) = Len(DeclFields)
           /\ \A i \in 1..Len(DeclFields) : ~Box(i).some

\* new() was called on the companion of a record of two fields of different
\* types, one bare, one under #[getter] and #[optional].
C12_Witness ==
    /\ builder.state = "live"
    /\ Len(DeclFields) = 2
    /\ \A i \in 1..Len(DeclFields) : calls[i] = <<>> /\ ~Box(i).some
    /\ DeclFields[1].attrs = <<>>
    /\ DeclFields[2].attrs = <<AGetter, AOptional>>
    /\ DeclFields[1].ty # DeclFields[2].ty
    /\ output.unit.builder_struct.setters[2].name = "with_wears_crocks"

====
